---- MODULE Spec2Model ----
(***************************************************************************)
(* Model of car_ans/spider_all_detials.py: the resolver of pending IDs     *)
(* (get_unique_ids), the page extractor (parse_models_config), the fetch   *)
(* loop (fetch_data) and the batch driver (main), over repeated runs on    *)
(* one manifest and one output directory.                                  *)
(*                                                                         *)
(* Text (a Python str that the code inspects character by character) is a  *)
(* sequence of one-character strings; dictionary keys (column labels, file *)
(* names) are strings; a dict is a function from a finite set of keys.     *)
(***************************************************************************)
EXTENDS Integers, Sequences, FiniteSets, TLC

VARIABLES
    manifest,     \* rows of car_rank_total.csv, as csv.DictReader yields them
    files,        \* output_dir: file name -> [bom, fieldnames, rows]
    run,          \* number of the current invocation of main
    pc,           \* position of main: start, scan, collect, finalize, write, done, crashed
    ids,          \* main: ids
    idx,          \* main: position of the scan loop in ids (1-based)
    attempt,      \* fetch_data: attempt
    fetch_result, \* fetch_data: the returned results (None or a list)
    trace,        \* requests and sleeps of the current fetch_data call
    fetched,      \* IDs passed to fetch_data in this run, in call order
    failed,       \* IDs for which fetch_data returned None in this run
    all_data,     \* main: all_data, label -> list of records
    bucket_order, \* insertion order of the keys of all_data
    field_set,    \* main: field_set
    all_fields,   \* main: all_fields
    wi,           \* main: position of the write loop in all_data.items()
    written,      \* IDs that earlier completed runs wrote to an output file
    soup,         \* parse_models_config: its argument
    parsed,       \* parse_models_config: its return value
    ppc           \* position of the extractor check: input, returned

vars == <<manifest, files, run, pc, ids, idx, attempt, fetch_result, trace,
          fetched, failed, all_data, bucket_order, field_set, all_fields, wi,
          written, soup, parsed, ppc>>

mainVars == <<manifest, files, run, pc, ids, idx, attempt, fetch_result, trace,
              fetched, failed, all_data, bucket_order, field_set, all_fields,
              wi, written>>

parseVars == <<soup, parsed, ppc>>

(***************************************************************************)
(* Bounds of the model.                                                    *)
(***************************************************************************)
MaxCols == 2
MaxRows == 2
MaxRuns == 2

(***************************************************************************)
(* Configuration and constants of the program.                             *)
(***************************************************************************)
retry_times == 3

\* what fetch_data returns beside the id: None, or a list of records
None == [is_none |-> TRUE, list |-> <<>>]

Some(list) == [is_none |-> FALSE, list |-> list]

\* A Chinese character is written by its pinyin and a symbol by its code
\* point, one string per character (TLA+ strings take ASCII only); the keys
\* "xinghao", "jiage" and "nengyuan_leixing" are the labels for model name,
\* price and energy type.
NA == <<"N", "/", "A">>
UnknownModel == <<"wei", "zhi", "che", "xing">>
UnknownLabel == <<"wei", "zhi">>
Electric == <<"chun", "dian">>
Fuel == <<"qi", "you">>
Hybrid == <<"you", "dian", "hun", "he">>
PlugIn == <<"cha", "dian", "shi">>
RangeExtender == <<"zeng", "cheng", "shi">>

ENERGY_TYPE_MAP ==
    [t \in {Electric, Fuel, Hybrid, PlugIn, RangeExtender} |->
        CASE t = Electric -> <<"electric_consumption", "battery_capacity", "cltc_recharge_mileage">>
          [] t = Fuel -> <<"engine_max_horsepower", "fuel_consumption", "displacement">>
          [] t = Hybrid -> <<"engine_max_horsepower", "battery_capacity", "electric_consumption">>
          [] t = PlugIn -> <<"engine_max_horsepower", "battery_capacity", "electric_consumption">>
          [] t = RangeExtender -> <<"range_extender_type", "battery_capacity", "electric_consumption">>]

ENERGY_TYPES ==
    [t \in {Electric, Fuel, Hybrid, PlugIn, RangeExtender, UnknownLabel} |->
        CASE t = Electric -> "electric"
          [] t = Fuel -> "fuel"
          [] t = Hybrid -> "hybrid"
          [] t = PlugIn -> "plug-in"
          [] t = RangeExtender -> "range-extender"
          [] t = UnknownLabel -> "unknown"]

(***************************************************************************)
(* Dictionaries and sequences.                                             *)
(***************************************************************************)
Range(s) == {s[i] : i \in DOMAIN s}

\* d.get(k, default)
Get(d, k, default) == IF k \in DOMAIN d THEN d[k] ELSE default

\* d[k] = v
Put(d, k, v) == [x \in (DOMAIN d) \cup {k} |-> IF x = k THEN v ELSE d[x]]

\* s[:n]
Take(s, n) == SubSeq(s, 1, IF n < Len(s) THEN n ELSE Len(s))

(***************************************************************************)
(* Text: the regular expressions of the extractor, str(), int(), isdigit.  *)
(***************************************************************************)
DigitChars == <<"0", "1", "2", "3", "4", "5", "6", "7", "8", "9">>

\* [U+E600-U+E6FF, U+25CF, U+25CB, U+203B]: the ends of the private-use
\* range stand for the range
Glyphs == {"U+E600", "U+E6FF", "U+25CF", "U+25CB", "U+203B"}

IsKept(c) == c \notin Glyphs

\* re.sub(r'[U+E600-U+E6FF U+25CF U+25CB U+203B]', '', text)
StripGlyphs(text) == SelectSeq(text, IsKept)

IsPriceChar(c) == c \in Range(DigitChars) \cup {".", "wan"}

\* re.sub(r'[^\d\. wan]', '', text) + 'wan'
CleanPrice(text) == SelectSeq(text, IsPriceChar) \o <<"wan">>

RECURSIVE StrNat(_)
StrNat(n) == IF n < 10 THEN <<DigitChars[n + 1]>>
             ELSE StrNat(n \div 10) \o <<DigitChars[(n % 10) + 1]>>

\* str(id)
Str(n) == IF n < 0 THEN <<"-">> \o StrNat(-n) ELSE StrNat(n)

\* text.isdigit()
IsDigit(text) == Len(text) > 0 /\ \A i \in DOMAIN text : text[i] \in Range(DigitChars)

DigitValue(c) == (CHOOSE i \in DOMAIN DigitChars : DigitChars[i] = c) - 1

RECURSIVE NatOf(_)
NatOf(text) == IF Len(text) = 0 THEN 0
               ELSE 10 * NatOf(SubSeq(text, 1, Len(text) - 1)) + DigitValue(text[Len(text)])

\* int(text) succeeds: an optional sign and decimal digits
IsInt(text) == \/ IsDigit(text)
               \/ Len(text) > 1 /\ text[1] \in {"-", "+"} /\ IsDigit(Tail(text))

\* int(text)
Int_(text) == IF IsDigit(text) THEN NatOf(text)
              ELSE IF text[1] = "-" THEN 0 - NatOf(Tail(text)) ELSE NatOf(Tail(text))

(***************************************************************************)
(* The parsed page.  A soup is what the selectors of parse_models_config   *)
(* find in it:                                                             *)
(*   header  the div table_head__FNAvn exists                              *)
(*   cols    its model columns (all but the first child), each with        *)
(*           name_tag (a cell_car__28WzZ element exists) and its text      *)
(*   price   kind "absent": no cell_official-price__1O2th element;         *)
(*           kind "orphan": the first one has no table_row__yVX1h parent;  *)
(*           kind "row": the price cells of that parent row, in cells      *)
(*   rows    the rows carrying data-row-anchor of every table_root__14vH_  *)
(*           but the first, in document order, each with has_label (a      *)
(*           cell_label__ZtXlw element exists), its label and the texts    *)
(*           of its cell_normal__37nRi cells                               *)
(***************************************************************************)
get_energy_specific_fields(energy_type) ==
    IF energy_type \in DOMAIN ENERGY_TYPE_MAP THEN ENERGY_TYPE_MAP[energy_type] ELSE <<>>

\* A fill that assigns the sentinel whether or not the page gave a value.
RECURSIVE FillFieldsOverwrite(_, _)
FillFieldsOverwrite(model, fields) ==
    IF fields = <<>> THEN model
    ELSE FillFieldsOverwrite(Put(model, Head(fields), NA), Tail(fields))

\* for field in specific_fields: model[field] = model.get(field, "N/A")
RECURSIVE FillFields(_, _)
FillFields(model, fields) ==
    IF fields = <<>> THEN model
    ELSE FillFields(Put(model, Head(fields), Get(model, Head(fields), NA)), Tail(fields))

NormalizeModel(model) ==
    FillFields(model, get_energy_specific_fields(Get(model, "nengyuan_leixing", NA)))

\* One record too few: the first model column taken for the label column.
InitModelsSkipFirst(model_cols) ==
    [i \in 1..(Len(model_cols) - 1) |-> [xinghao |-> UnknownModel, jiage |-> NA]]

InitModels(model_cols) ==
    [i \in 1..Len(model_cols) |-> [xinghao |-> UnknownModel, jiage |-> NA]]

WithNames(models, model_cols) ==
    [i \in DOMAIN models |->
        IF model_cols[i].name_tag
        THEN Put(models[i], "xinghao", StripGlyphs(model_cols[i].text))
        ELSE models[i]]

WithPrices(models, price) ==
    IF price.kind = "row"
    THEN LET price_cells == Take(price.cells, Len(models))
         IN [i \in DOMAIN models |->
                IF i <= Len(price_cells)
                THEN Put(models[i], "jiage", CleanPrice(price_cells[i]))
                ELSE models[i]]
    ELSE models

ApplyRow(models, row) ==
    LET cells == Take(row.cells, Len(models))
    IN [i \in DOMAIN models |->
           IF i <= Len(cells)
           THEN Put(models[i], row.label, StripGlyphs(cells[i]))
           ELSE models[i]]

RECURSIVE ApplyRows(_, _)
ApplyRows(models, rows) ==
    IF rows = <<>> THEN models
    ELSE ApplyRows(ApplyRow(models, Head(rows)), Tail(rows))

\* An AttributeError on None: find_parent found no row, or select_one no label.
LookupFails(s) ==
    \/ s.price.kind = "orphan"
    \/ \E i \in DOMAIN s.rows : ~s.rows[i].has_label

\* The try block of parse_models_config raises (and its except returns []).
ParseRaises(s) == s.header /\ s.cols # <<>> /\ LookupFails(s)

parse_models_config(s) ==
    IF ~s.header THEN <<>>
    ELSE IF s.cols = <<>> THEN <<>>
    ELSE IF LookupFails(s) THEN <<>>
    ELSE LET filled == ApplyRows(WithPrices(WithNames(InitModels(s.cols), s.cols), s.price), s.rows)
         IN [i \in DOMAIN filled |-> NormalizeModel(filled[i])]

(***************************************************************************)
(* The pages the extractor is checked on: up to MaxCols model columns and  *)
(* up to MaxRows attribute rows.                                           *)
(***************************************************************************)
SeqsUpTo(S, n) == UNION {[1..k -> S] : k \in 0..n}

\* n cells, t1 in the odd columns and t2 in the even ones
CellRow(t1, t2, n) == [i \in 1..n |-> IF i % 2 = 1 THEN t1 ELSE t2]

Diesel == <<"chai", "you">>

ColOptions ==
    {[name_tag |-> FALSE, text |-> <<>>],
     [name_tag |-> TRUE, text |-> <<"U+25CF", "A">>],
     [name_tag |-> TRUE, text |-> <<"B", "U+E600">>]}

PriceOptions ==
    {[kind |-> "absent", cells |-> <<>>], [kind |-> "orphan", cells |-> <<>>]}
    \cup {[kind |-> "row", cells |-> CellRow(<<"9", ".", "8", "wan">>, <<"7", "wan", "qi">>, n)] :
             n \in {1, MaxCols}}

RowOptions ==
    {[has_label |-> FALSE, label |-> "", cells |-> <<>>],
     [has_label |-> TRUE, label |-> "chang_kuan_gao", cells |-> CellRow(<<"4", "U+203B">>, <<"5">>, MaxCols)]}
    \cup {[has_label |-> TRUE, label |-> "nengyuan_leixing", cells |-> CellRow(t[1], t[2], n)] :
             t \in {<<Electric, <<"U+25CB">> \o Fuel>>, <<Diesel, Electric>>}, n \in {1, MaxCols}}
    \cup {[has_label |-> TRUE, label |-> "battery_capacity", cells |-> CellRow(<<"U+25CF", "7", "5">>, <<"6">>, n)] :
             n \in {1, MaxCols}}

NoHeaderSoup ==
    [header |-> FALSE, cols |-> <<>>, price |-> [kind |-> "absent", cells |-> <<>>], rows |-> <<>>]

ParseSoups ==
    {NoHeaderSoup}
    \cup {[header |-> TRUE, cols |-> c, price |-> p, rows |-> r] :
             c \in SeqsUpTo(ColOptions, MaxCols), p \in PriceOptions,
             r \in SeqsUpTo(RowOptions, MaxRows)}

(***************************************************************************)
(* The extractor on its own: one call of parse_models_config on a page.    *)
(***************************************************************************)
MainIdle ==
    /\ manifest = <<>>
    /\ files = <<>>
    /\ run = 0
    /\ pc = "idle"
    /\ ids = <<>>
    /\ idx = 0
    /\ attempt = 0
    /\ fetch_result = None
    /\ trace = <<>>
    /\ fetched = <<>>
    /\ failed = {}
    /\ all_data = <<>>
    /\ bucket_order = <<>>
    /\ field_set = {}
    /\ all_fields = <<>>
    /\ wi = 0
    /\ written = {}

InitParse ==
    /\ MainIdle
    /\ soup \in ParseSoups
    /\ parsed = <<>>
    /\ ppc = "input"

ParseCall ==
    /\ ppc = "input"
    /\ parsed' = parse_models_config(soup)
    /\ ppc' = "returned"
    /\ UNCHANGED <<soup, mainVars>>

NextParse == ParseCall

SpecParse == InitParse /\ [][NextParse]_vars

(***************************************************************************)
(* get_unique_ids.  A file of output_dir is [bom, fieldnames, rows]: bom   *)
(* says that it starts with a byte order mark (it was written with the     *)
(* utf-8-sig codec), rows are dicts over fieldnames.  Every file of the    *)
(* model has a name ending in .csv.                                        *)
(***************************************************************************)
BOM == "U+FEFF"

\* csv.DictReader over open(..., encoding='utf-8'): the utf-8 codec keeps a
\* byte order mark as the first character of the first field name.
ReadFieldnames(f) ==
    [i \in DOMAIN f.fieldnames |->
        IF i = 1 /\ f.bom THEN BOM \o f.fieldnames[i] ELSE f.fieldnames[i]]

ReadRows(f) ==
    [r \in DOMAIN f.rows |->
        [k \in Range(ReadFieldnames(f)) |->
            f.rows[r][f.fieldnames[CHOOSE i \in DOMAIN f.fieldnames : ReadFieldnames(f)[i] = k]]]]

\* row['ID'] raises KeyError
DoneIdsRaises(f) == \E r \in DOMAIN ReadRows(f) : "ID" \notin DOMAIN ReadRows(f)[r]

\* {int(row['ID']) for row in csv.DictReader(f) if row['ID'].isdigit()}
DoneIds(f) ==
    {Int_(ReadRows(f)[r]["ID"]) : r \in {q \in DOMAIN ReadRows(f) : IsDigit(ReadRows(f)[q]["ID"])}}

\* the try/except of the manifest loop: rows without 'id' or with a
\* non-integer 'id' are skipped
ManifestIds(m) ==
    {Int_(m[r]["id"]) : r \in {q \in DOMAIN m : "id" \in DOMAIN m[q] /\ IsInt(m[q]["id"])}}

Min(S) == CHOOSE x \in S : \A y \in S : x <= y

\* sorted(unique_ids)
RECURSIVE Sorted(_)
Sorted(S) == IF S = {} THEN <<>> ELSE <<Min(S)>> \o Sorted(S \ {Min(S)})

get_unique_ids_raises(m, dir) == \E name \in DOMAIN dir : DoneIdsRaises(dir[name])

get_unique_ids(m, dir) ==
    Sorted(ManifestIds(m) \ UNION {DoneIds(dir[name]) : name \in DOMAIN dir})

(***************************************************************************)
(* fetch_data.  A response is what requests.get does: it raises, or it     *)
(* returns with response.ok, the marker text in or not in response.text,   *)
(* and the soup of response.text.                                          *)
(***************************************************************************)
Tagged(results, id) == [i \in DOMAIN results |-> Put(results[i], "ID", Str(id))]

Accepted(results) ==
    Len(results) > 0 /\ \E i \in DOMAIN results : results[i]["xinghao"] # UnknownModel

\* One pass of the retry loop with an except clause that does not cover
\* the exception of requests.get.
AttemptOutcomePropagating(id, resp) ==
    IF resp.kind = "raise" THEN [step |-> "raise", results |-> None]
    ELSE IF ~resp.ok \/ ~resp.marker THEN [step |-> "continue", results |-> None]
    ELSE LET results == Tagged(parse_models_config(resp.soup), id)
         IN IF Accepted(results) THEN [step |-> "return", results |-> Some(results)]
            ELSE [step |-> "sleep", results |-> None]

\* One pass of the retry loop that accepts whatever the extractor returns.
AttemptOutcomeAcceptAll(id, resp) ==
    IF resp.kind = "raise" THEN [step |-> "sleep", results |-> None]
    ELSE IF ~resp.ok \/ ~resp.marker THEN [step |-> "continue", results |-> None]
    ELSE LET results == Tagged(parse_models_config(resp.soup), id)
         IN IF Len(results) > 0 THEN [step |-> "return", results |-> Some(results)]
            ELSE [step |-> "sleep", results |-> None]

\* One pass of the retry loop: "continue" skips the sleep, "sleep" falls
\* through to it, "return" leaves fetch_data with the results, "raise"
\* would leave it with an exception.
AttemptOutcome(id, resp) ==
    IF resp.kind = "raise" THEN [step |-> "sleep", results |-> None]
    ELSE IF ~resp.ok \/ ~resp.marker THEN [step |-> "continue", results |-> None]
    ELSE LET results == Tagged(parse_models_config(resp.soup), id)
         IN IF Accepted(results) THEN [step |-> "return", results |-> Some(results)]
            ELSE [step |-> "sleep", results |-> None]

(***************************************************************************)
(* main: the column list and the files.                                    *)
(***************************************************************************)
base_fields == <<"ID", "xinghao", "jiage", "nengyuan_leixing">>

\* The keys of the model in the order of their first differing code point
\* (Python compares str by code point): ASCII before the Chinese labels
\* jiage U+4EF7, xinghao U+578B, pailiang U+6392, nengyuan_leixing U+80FD,
\* chang_kuan_gao U+957F.
KeyOrder ==
    <<"ID", "battery_capacity", "cltc_recharge_mileage", "displacement",
      "electric_consumption", "engine_max_horsepower", "fuel_consumption",
      "range_extender_type", "jiage", "xinghao", "pailiang", "nengyuan_leixing",
      "chang_kuan_gao">>

CodePointRank(k) == CHOOSE i \in DOMAIN KeyOrder : KeyOrder[i] = k

MinKey(S) == CHOOSE x \in S : \A y \in S : CodePointRank(x) <= CodePointRank(y)

\* sorted(list of str)
RECURSIVE SortedKeys(_)
SortedKeys(S) == IF S = {} THEN <<>> ELSE <<MinKey(S)>> \o SortedKeys(S \ {MinKey(S)})

\* A column list that does not take the identity fields out of the rest.
AllFieldsKeepingBase(fields) == base_fields \o SortedKeys(fields)

\* base_fields + sorted([f for f in field_set if f not in base_fields])
AllFields(fields) == base_fields \o SortedKeys(fields \ Range(base_fields))

file_tag(energy_type) ==
    IF energy_type \in DOMAIN ENERGY_TYPES THEN ENERGY_TYPES[energy_type] ELSE "unknown"

output_path(energy_type) == "car_data_" \o file_tag(energy_type) \o ".csv"

\* csv.DictWriter(fieldnames, extrasaction='ignore'): a missing key is
\* written as the empty string, a key outside fieldnames is dropped
WrittenRow(model, fieldnames) == [k \in Range(fieldnames) |-> Get(model, k, <<>>)]

WrittenFile(data, fieldnames) ==
    [bom |-> TRUE, fieldnames |-> fieldnames,
     rows |-> [i \in DOMAIN data |-> WrittenRow(data[i], fieldnames)]]

\* for model in results: field_set.update(...); all_data[energy].append(model)
RECURSIVE Accumulated(_, _)
Accumulated(acc, results) ==
    IF results = <<>> THEN acc
    ELSE LET model == Head(results)
             energy == Get(model, "nengyuan_leixing", UnknownLabel)
         IN Accumulated(
                [fields |-> acc.fields \cup DOMAIN model,
                 data |-> Put(acc.data, energy, Append(Get(acc.data, energy, <<>>), model)),
                 order |-> IF energy \in DOMAIN acc.data THEN acc.order ELSE Append(acc.order, energy)],
                Tail(results))

(***************************************************************************)
(* The inputs of the batch: manifests, output directories that exist       *)
(* before the first run, and the responses of the site.                    *)
(***************************************************************************)
IdRow(text) == [id |-> text, name |-> <<"x">>]

\* The last manifest has no id column.
Manifests ==
    {<<IdRow(<<"2">>), IdRow(<<"1">>), IdRow(<<"x", "1">>)>>,
     <<IdRow(<<"3">>), IdRow(<<"1">>), IdRow(<<"2">>), IdRow(<<"1">>)>>,
     <<[name |-> <<"y">>], [name |-> <<"z">>]>>}

\* A file without byte order mark, as another tool saved it.
PlainFile(id_texts) ==
    [bom |-> FALSE, fieldnames |-> <<"ID", "xinghao">>,
     rows |-> [i \in DOMAIN id_texts |-> [ID |-> id_texts[i], xinghao |-> <<"A">>]]]

InitialDirs ==
    {<<>>,
     [n \in {"car_data_fuel.csv"} |-> PlainFile(<<<<"1">>, <<"n", "a">>>>)],
     [n \in {"car_data_fuel.csv", "car_data_hybrid.csv"} |->
         IF n = "car_data_fuel.csv" THEN PlainFile(<<<<"2">>, <<"1">>>>)
         ELSE PlainFile(<<<<"1">>>>)]}

NamedA == [name_tag |-> TRUE, text |-> <<"U+25CF", "A">>]
NamedB == [name_tag |-> TRUE, text |-> <<"B">>]
Unnamed == [name_tag |-> FALSE, text |-> <<>>]
NoPrice == [kind |-> "absent", cells |-> <<>>]
LabelRow(label, cells) == [has_label |-> TRUE, label |-> label, cells |-> cells]

\* a page whose anchored row has no label cell: the extraction raises
PageRaises ==
    [header |-> TRUE, cols |-> <<NamedA>>, price |-> NoPrice,
     rows |-> <<[has_label |-> FALSE, label |-> "", cells |-> <<>>]>>]

\* a page whose only column has no name element
PageSentinel == [header |-> TRUE, cols |-> <<Unnamed>>, price |-> NoPrice, rows |-> <<>>]

\* two models, one electric and one petrol
PageElectricFuel ==
    [header |-> TRUE, cols |-> <<NamedA, Unnamed>>,
     price |-> [kind |-> "row", cells |-> <<<<"9", ".", "8", "wan">>, <<"7", "wan">>>>],
     rows |-> <<LabelRow("nengyuan_leixing", <<Electric, <<"U+25CB">> \o Fuel>>),
                LabelRow("battery_capacity", <<<<"7", "5">>>>)>>]

\* two models, one of a type outside ENERGY_TYPES and one without a type
PageDieselUntyped ==
    [header |-> TRUE, cols |-> <<NamedA, NamedB>>, price |-> NoPrice,
     rows |-> <<LabelRow("nengyuan_leixing", <<Diesel>>),
                LabelRow("pailiang", <<<<"2">>, <<"3">>>>)>>]

\* one petrol model
PageFuel ==
    [header |-> TRUE, cols |-> <<NamedB>>, price |-> NoPrice,
     rows |-> <<LabelRow("chang_kuan_gao", <<<<"4">>>>),
                LabelRow("nengyuan_leixing", <<Fuel>>)>>]

MainPages == {NoHeaderSoup, PageRaises, PageSentinel, PageElectricFuel, PageDieselUntyped, PageFuel}

Responses ==
    {[kind |-> "raise"],
     [kind |-> "response", ok |-> FALSE, marker |-> TRUE, soup |-> NoHeaderSoup],
     [kind |-> "response", ok |-> TRUE, marker |-> FALSE, soup |-> NoHeaderSoup]}
    \cup {[kind |-> "response", ok |-> TRUE, marker |-> TRUE, soup |-> p] : p \in MainPages}

(***************************************************************************)
(* The batch: runs of main on one manifest and one output directory.       *)
(***************************************************************************)
ParseIdle == soup = NoHeaderSoup /\ parsed = <<>> /\ ppc = "idle"

Init ==
    /\ manifest \in Manifests
    /\ files \in InitialDirs
    /\ run = 1
    /\ pc = "start"
    /\ ids = <<>>
    /\ idx = 0
    /\ attempt = 0
    /\ fetch_result = None
    /\ trace = <<>>
    /\ fetched = <<>>
    /\ failed = {}
    /\ all_data = <<>>
    /\ bucket_order = <<>>
    /\ field_set = {}
    /\ all_fields = <<>>
    /\ wi = 0
    /\ written = {}
    /\ ParseIdle

\* main, lines 135-142: get_unique_ids raises, or there is nothing to do,
\* or the scan starts with empty collections.
MainStart ==
    /\ pc = "start"
    /\ IF get_unique_ids_raises(manifest, files)
       THEN pc' = "crashed" /\ UNCHANGED <<ids, idx>>
       ELSE /\ ids' = get_unique_ids(manifest, files)
            /\ pc' = IF ids' = <<>> THEN "done" ELSE "scan"
            /\ idx' = 1
    /\ UNCHANGED <<manifest, files, run, attempt, fetch_result, trace, fetched,
                   failed, all_data, bucket_order, field_set, all_fields, wi,
                   written, parseVars>>

\* main, line 147: the call of fetch_data(id)
CallFetch ==
    /\ pc = "scan"
    /\ fetched' = Append(fetched, ids[idx])
    /\ attempt' = 0
    /\ trace' = <<>>
    /\ fetch_result' = None
    /\ pc' = "fetch"
    /\ UNCHANGED <<manifest, files, run, ids, idx, failed, all_data, bucket_order,
                   field_set, all_fields, wi, written, parseVars>>

\* fetch_data, lines 113-132: one pass of the retry loop, and the return of
\* (id, None) after the last one
FetchAttempt ==
    /\ pc = "fetch"
    /\ attempt < retry_times
    /\ \E resp \in Responses :
          LET out == AttemptOutcome(ids[idx], resp)
              request == [ev |-> "request", attempt |-> attempt, resp |-> resp]
              sleep == [ev |-> "sleep", attempt |-> attempt]
          IN /\ trace' = IF out.step = "sleep" THEN trace \o <<request, sleep>>
                         ELSE Append(trace, request)
             /\ fetch_result' = out.results
             /\ attempt' = attempt + 1
             /\ pc' = CASE out.step = "raise" -> "crashed"
                        [] out.step = "return" -> "collect"
                        [] OTHER -> IF attempt + 1 = retry_times THEN "collect" ELSE "fetch"
    /\ UNCHANGED <<manifest, files, run, ids, idx, fetched, failed, all_data,
                   bucket_order, field_set, all_fields, wi, written, parseVars>>

\* main, lines 148-152, and the step of the scan loop
Collect ==
    /\ pc = "collect"
    /\ IF fetch_result.is_none
       THEN /\ failed' = failed \cup {ids[idx]}
            /\ UNCHANGED <<all_data, bucket_order, field_set>>
       ELSE LET acc == Accumulated([fields |-> field_set, data |-> all_data, order |-> bucket_order],
                                   fetch_result.list)
            IN /\ field_set' = acc.fields
               /\ all_data' = acc.data
               /\ bucket_order' = acc.order
               /\ UNCHANGED failed
    /\ idx' = idx + 1
    /\ pc' = IF idx = Len(ids) THEN "finalize" ELSE "scan"
    /\ UNCHANGED <<manifest, files, run, ids, attempt, fetch_result, trace, fetched,
                   all_fields, wi, written, parseVars>>

\* main, lines 154-156
Finalize ==
    /\ pc = "finalize"
    /\ all_fields' = AllFields(field_set)
    /\ wi' = 1
    /\ pc' = IF bucket_order = <<>> THEN "done" ELSE "write"
    /\ UNCHANGED <<manifest, files, run, ids, idx, attempt, fetch_result, trace,
                   fetched, failed, all_data, bucket_order, field_set, written, parseVars>>

\* main, lines 159-168: one pass of the write loop; open(output_path, 'w')
\* replaces the file of that name
WriteBucket ==
    /\ pc = "write"
    /\ LET energy_type == bucket_order[wi]
           data == all_data[energy_type]
       IN /\ files' = Put(files, output_path(energy_type), WrittenFile(data, all_fields))
          /\ written' = written \cup {Int_(data[i]["ID"]) : i \in DOMAIN data}
    /\ wi' = wi + 1
    /\ pc' = IF wi = Len(bucket_order) THEN "done" ELSE "write"
    /\ UNCHANGED <<manifest, run, ids, idx, attempt, fetch_result, trace, fetched,
                   failed, all_data, bucket_order, field_set, all_fields, parseVars>>

\* the next invocation of the program on the same manifest and directory
Rerun ==
    /\ pc \in {"done", "crashed"}
    /\ run < MaxRuns
    /\ run' = run + 1
    /\ pc' = "start"
    /\ ids' = <<>>
    /\ idx' = 0
    /\ attempt' = 0
    /\ fetch_result' = None
    /\ trace' = <<>>
    /\ fetched' = <<>>
    /\ failed' = {}
    /\ all_data' = <<>>
    /\ bucket_order' = <<>>
    /\ field_set' = {}
    /\ all_fields' = <<>>
    /\ wi' = 0
    /\ UNCHANGED <<manifest, files, written, parseVars>>

Next ==
    \/ MainStart
    \/ CallFetch
    \/ FetchAttempt
    \/ Collect
    \/ Finalize
    \/ WriteBucket
    \/ Rerun

Spec == Init /\ [][Next]_vars

(***************************************************************************)
(* Claims about the extractor, checked under SpecParse.                    *)
(***************************************************************************)
HeaderWithColumns == ppc = "returned" /\ soup.header /\ Len(soup.cols) >= 1

\* Every lookup the extraction dereferences finds its element.
EveryLookupFinds ==
    /\ soup.price.kind # "orphan"
    /\ \A r \in Range(soup.rows) : r.has_label

ColumnName(col) == IF col.name_tag THEN StripGlyphs(col.text) ELSE UnknownModel

\* C4 as stated: a page with a detected header and K >= 1 model columns
\* yields exactly K records, whatever its attribute rows look like.
C4_AlwaysKRecords == HeaderWithColumns => Len(parsed) = Len(soup.cols)

\* C4 amended: a page with a detected header and K >= 1 model columns yields
\* exactly K records, record i carrying the name of column i, when no step
\* of the extraction raises, and no record at all when one does (an anchored
\* row without a label cell, a price cell outside a table row).
C4_KRecordsOrNone ==
    HeaderWithColumns =>
        IF EveryLookupFinds
        THEN /\ Len(parsed) = Len(soup.cols)
             /\ \A i \in DOMAIN parsed : parsed[i]["xinghao"] = ColumnName(soup.cols[i])
        ELSE parsed = <<>>

C4_Witness ==
    /\ HeaderWithColumns
    /\ Len(parsed) >= 2
    /\ soup.rows # <<>>
    /\ parsed[1]["xinghao"] # parsed[2]["xinghao"]

C4_WitnessRaised == HeaderWithColumns /\ ~EveryLookupFinds /\ parsed = <<>>

\* The rows of the page that give column i a value for the key.
SupplyingRows(i, key) ==
    {j \in DOMAIN soup.rows : soup.rows[j].label = key /\ i <= Len(soup.rows[j].cells)}

LastOf(S) == CHOOSE j \in S : \A k \in S : k <= j

\* C6: a returned record whose energy type is a key of ENERGY_TYPE_MAP has
\* every attribute key listed for that type, with the value the page gave
\* for it (the last one, cleaned) or "N/A" when the page gave none.
C6_CatalogKeysPresent ==
    ppc = "returned" =>
        \A i \in DOMAIN parsed :
            LET t == Get(parsed[i], "nengyuan_leixing", NA)
            IN t \in DOMAIN ENERGY_TYPE_MAP =>
                   \A key \in Range(ENERGY_TYPE_MAP[t]) :
                       /\ key \in DOMAIN parsed[i]
                       /\ parsed[i][key] =
                              IF SupplyingRows(i, key) = {} THEN NA
                              ELSE StripGlyphs(soup.rows[LastOf(SupplyingRows(i, key))].cells[i])

C6_Witness ==
    /\ ppc = "returned"
    /\ \E i \in DOMAIN parsed :
           /\ Get(parsed[i], "nengyuan_leixing", NA) = Electric
           /\ SupplyingRows(i, "battery_capacity") # {}
           /\ parsed[i]["battery_capacity"] # NA
           /\ parsed[i]["cltc_recharge_mileage"] = NA

(***************************************************************************)
(* Claims about the batch, checked under Spec.                             *)
(***************************************************************************)
\* main is past get_unique_ids and has not written yet
Resolved == pc \in {"scan", "fetch", "collect", "finalize", "crashed"}

IsAscending(s) == \A i, j \in DOMAIN s : i < j => s[i] < s[j]

\* the integer IDs that the rows of the output files hold
StoredIds ==
    UNION {{Int_(files[n].rows[r]["ID"]) :
               r \in {q \in DOMAIN files[n].rows :
                         "ID" \in DOMAIN files[n].rows[q] /\ IsInt(files[n].rows[q]["ID"])}} :
           n \in DOMAIN files}

\* C1: with M the integer IDs of the manifest and D the IDs of the rows of
\* the output files, those written by an earlier run of main included,
\* get_unique_ids returns M minus D in ascending order.
C1_PendingIsManifestMinusDone ==
    Resolved =>
        /\ pc # "crashed"
        /\ IsAscending(ids)
        /\ Range(ids) = ManifestIds(manifest) \ StoredIds

WriteFinished == pc = "done" /\ bucket_order # <<>> /\ wi = Len(bucket_order) + 1

FilesHolding(row) == {n \in DOMAIN files : row \in Range(files[n].rows)}

\* C3: when the write phase has finished, every record of every bucket is a
\* row of exactly one output file, the file of its bucket's slug.
C3_EveryRecordInOneFile ==
    WriteFinished =>
        \A e \in DOMAIN all_data :
            \A i \in DOMAIN all_data[e] :
                FilesHolding(WrittenRow(all_data[e][i], all_fields)) = {output_path(e)}

BucketRecords == UNION {Range(all_data[e]) : e \in DOMAIN all_data}

\* C5: the pending IDs go to fetch_data once each in ascending order,
\* whatever happened to earlier IDs: no failure ends the run during the
\* scan, the scan reaches every ID, and an ID for which fetch_data returned
\* None has no record in any bucket.
C5_FailuresIsolated ==
    /\ pc = "crashed" => fetched = <<>>
    /\ pc # "crashed" => IsAscending(ids) /\ fetched = Take(ids, Len(fetched))
    /\ pc \in {"fetch", "collect"} => Len(fetched) = idx
    /\ pc \in {"finalize", "write", "done"} => fetched = ids
    /\ failed \subseteq Range(fetched)
    /\ \A id \in failed : \A rec \in BucketRecords : rec["ID"] # Str(id)

C5_Witness ==
    /\ pc = "done"
    /\ \E i, j \in DOMAIN ids :
          /\ i < j
          /\ ids[i] \in failed
          /\ \E rec \in BucketRecords : rec["ID"] = Str(ids[j])

Finalized == pc \in {"write", "done"} /\ wi >= 1

OtherFields == SubSeq(all_fields, Len(base_fields) + 1, Len(all_fields))

\* C7: the column list is ID, model, price, energy type in that order, then
\* every other key of any accumulated record, each once, in ascending code
\* point order; it depends on the set of records only, and every file the
\* run writes has it as its header.
C7_ColumnList ==
    Finalized =>
        /\ Take(all_fields, 4) = <<"ID", "xinghao", "jiage", "nengyuan_leixing">>
        /\ Range(OtherFields) =
               UNION {DOMAIN rec : rec \in BucketRecords} \ {"ID", "xinghao", "jiage", "nengyuan_leixing"}
        /\ \A i, j \in DOMAIN OtherFields :
               i < j => CodePointRank(OtherFields[i]) < CodePointRank(OtherFields[j])
        /\ \A w \in 1..(wi - 1) : files[output_path(bucket_order[w])].fieldnames = all_fields

C7_Witness ==
    /\ pc = "done"
    /\ wi >= 3
    /\ {"battery_capacity", "pailiang", "chang_kuan_gao"} \subseteq Range(OtherFields)

Requests == {i \in DOMAIN trace : trace[i].ev = "request"}

\* the response of a request is one that fetch_data may return records from
Acceptable(resp) ==
    /\ resp.kind = "response"
    /\ resp.ok
    /\ resp.marker
    /\ \E rec \in Range(parse_models_config(resp.soup)) : rec["xinghao"] # UnknownModel

\* C8: fetch_data returns records only from an attempt whose response is
\* OK, has the marker text and yields a record with a model name other than
\* the sentinel, and then the records are the extractor's, each with ID
\* equal to id; otherwise it returns None after retry_times requests, none
\* of which had such a response.  It never makes more than retry_times.
C8_FetchReturn ==
    /\ Cardinality(Requests) <= retry_times
    /\ pc = "collect" =>
        IF fetch_result.is_none
        THEN /\ Cardinality(Requests) = retry_times
             /\ \A i \in Requests : ~Acceptable(trace[i].resp)
        ELSE LET last == trace[Len(trace)]
                 recs == parse_models_config(last.resp.soup)
             IN /\ last.ev = "request"
                /\ Acceptable(last.resp)
                /\ Len(fetch_result.list) = Len(recs)
                /\ \A i \in DOMAIN recs :
                       /\ fetch_result.list[i]["ID"] = Str(ids[idx])
                       /\ \A k \in DOMAIN recs[i] : fetch_result.list[i][k] = recs[i][k]

C8_Witness ==
    /\ pc = "collect"
    /\ ~fetch_result.is_none
    /\ Len(fetch_result.list) = 2
    /\ Cardinality(Requests) = 3
    /\ \E i \in DOMAIN fetch_result.list : fetch_result.list[i]["xinghao"] = UnknownModel

PageRaised(resp) == resp.kind = "response" /\ resp.ok /\ resp.marker /\ ParseRaises(resp.soup)

\* C9: after a request whose page made the extraction raise, fetch_data
\* makes no further request for that ID.
C9_ParseExceptionNotRetried ==
    \A i \in Requests : PageRaised(trace[i].resp) => \A j \in Requests : j <= i

\* C10: between two consecutive requests for the same ID lies the sleep of
\* the earlier attempt, whatever made that attempt fail.
C10_SleepBetweenAttempts ==
    \A i, j \in Requests :
        (i < j /\ \A k \in Requests : ~(i < k /\ k < j)) =>
            \E k \in (i + 1)..(j - 1) : trace[k] = [ev |-> "sleep", attempt |-> trace[i].attempt]

====
